---- MODULE Spec2Model ----
(***************************************************************************)
(* A model of bible_parser.py: clean_text (the markup normalizer) and      *)
(* parse_chapter (the chapter extractor).                                  *)
(*                                                                         *)
(* Markup is a sequence of tokens.  A token is a tag ("<sup>", "</i>"),    *)
(* a character reference spelling a tag ("&lt;sup&gt;"), or a piece of     *)
(* text: one whitespace character, or a run of non-whitespace characters.  *)
(* Plain text is a sequence of text tokens; text that spells a tag is the  *)
(* same string as the tag, so that handing plain text back to the HTML     *)
(* parser reads it as markup, as BeautifulSoup does.                       *)
(***************************************************************************)
EXTENDS Integers, Sequences, FiniteSets, TLC

\* ---------------------------------------------------------------- tokens
VerseNumOpen == "<span class='versenum'>"
ChapterNumOpen == "<span class='chapternum'>"

OpenTags == {"<sup>", "<i>", "<em>", VerseNumOpen, ChapterNumOpen}
CloseTags == {"</sup>", "</i>", "</em>", "</span>"}
EscapedTags == {"&lt;sup&gt;", "&lt;/sup&gt;", "&lt;i&gt;", "&lt;/i&gt;"}
Whitespace == {" ", "\n"}

\* The element name of a tag token.
TagName(tok) ==
    CASE tok \in {"<sup>", "</sup>"} -> "sup"
      [] tok \in {"<i>", "</i>"} -> "i"
      [] tok \in {"<em>", "</em>"} -> "em"
      [] OTHER -> "span"

\* The text a text token stands for: a character reference is decoded.
Decode(tok) ==
    CASE tok = "&lt;sup&gt;" -> "<sup>"
      [] tok = "&lt;/sup&gt;" -> "</sup>"
      [] tok = "&lt;i&gt;" -> "<i>"
      [] tok = "&lt;/i&gt;" -> "</i>"
      [] OTHER -> tok

\* ------------------------------------------------------- the parsed tree
\* The open elements after an end tag: html.parser closes the innermost open
\* element of that name with everything opened inside it, and ignores an end
\* tag that matches no open element.
PopToTag(stack, tok) ==
    LET hits == {k \in 1..Len(stack) : TagName(stack[k]) = TagName(tok)}
    IN  IF hits = {} THEN stack
        ELSE SubSeq(stack, 1, (CHOOSE k \in hits : \A m \in hits : m <= k) - 1)

\* The open elements after the first i tokens of html.
RECURSIVE StackAt(_, _)
StackAt(html, i) ==
    IF i = 0 THEN <<>>
    ELSE LET stack == StackAt(html, i - 1)
             tok == html[i]
         IN  IF tok \in OpenTags THEN Append(stack, tok)
             ELSE IF tok \in CloseTags THEN PopToTag(stack, tok)
             ELSE stack

\* An element that clean_text deletes with its subtree.
IsDecomposed(tok) == tok = "<sup>" \/ tok = ChapterNumOpen

IsItalic(tok) == tok \in {"<i>", "<em>"}

\* Text below these open elements has been deleted.
InDecomposed(stack) == \E k \in 1..Len(stack) : IsDecomposed(stack[k])

\* stack[j] is an <i>/<em> that find_all still sees after the deletions and
\* that is not inside another one: the element replaced by "*text*".
ReplacedItalic(stack, j) ==
    /\ IsItalic(stack[j])
    /\ \A m \in 1..(j - 1) : ~IsItalic(stack[m]) /\ ~IsDecomposed(stack[m])

\* The emphasis marker written where elements stack[from..] begin or end.
Marker(stack, from) ==
    IF \E j \in from..Len(stack) : ReplacedItalic(stack, j) THEN <<"*">> ELSE <<>>

\* soup.get_text() after the two deletions and the emphasis replacement,
\* reading html from token i with `stack` the open elements.
RECURSIVE GetText(_, _, _)
GetText(html, i, stack) ==
    IF i > Len(html) THEN Marker(stack, 1)
    ELSE LET tok == html[i]
         IN  IF tok \in OpenTags
             THEN LET opened == Append(stack, tok)
                  IN  Marker(opened, Len(opened)) \o GetText(html, i + 1, opened)
             ELSE IF tok \in CloseTags
             THEN LET popped == PopToTag(stack, tok)
                  IN  Marker(stack, Len(popped) + 1) \o GetText(html, i + 1, popped)
             ELSE IF InDecomposed(stack) THEN GetText(html, i + 1, stack)
             ELSE <<Decode(tok)>> \o GetText(html, i + 1, stack)

\* ------------------------------------------------------------ whitespace
\* The last index of the run of whitespace that starts at i.
RECURSIVE RunEnd(_, _)
RunEnd(string, i) ==
    IF i < Len(string) /\ string[i + 1] \in Whitespace THEN RunEnd(string, i + 1) ELSE i

RECURSIVE CollapsePairsFrom(_, _)
CollapsePairsFrom(string, i) ==
    IF i > Len(string) THEN <<>>
    ELSE IF i < Len(string) /\ string[i] \in Whitespace /\ string[i + 1] \in Whitespace
    THEN <<" ">> \o CollapsePairsFrom(string, i + 2)
    ELSE <<string[i]>> \o CollapsePairsFrom(string, i + 1)

\* re.sub(r"\s{2}", " ", text): a buggy variant that rewrites pairs only.
CollapsePairs(string) == CollapsePairsFrom(string, 1)

RECURSIVE CollapseFrom(_, _)
CollapseFrom(string, i) ==
    IF i > Len(string) THEN <<>>
    ELSE IF string[i] \in Whitespace /\ RunEnd(string, i) > i
    THEN <<" ">> \o CollapseFrom(string, RunEnd(string, i) + 1)
    ELSE <<string[i]>> \o CollapseFrom(string, i + 1)

\* re.sub(r"\s{2,}", " ", text): every maximal run of two or more whitespace
\* characters becomes one space; a single whitespace character stays.
Collapse(string) == CollapseFrom(string, 1)

\* The indices of the characters of string that are not whitespace.
Inked(string) == {i \in 1..Len(string) : string[i] \notin Whitespace}

\* str.lstrip() only: a buggy variant that leaves trailing whitespace.
StripLeft(string) ==
    IF Inked(string) = {} THEN <<>>
    ELSE SubSeq(string, CHOOSE i \in Inked(string) : \A m \in Inked(string) : i <= m,
                Len(string))

\* str.strip()
Strip(string) ==
    IF Inked(string) = {} THEN <<>>
    ELSE SubSeq(string, CHOOSE i \in Inked(string) : \A m \in Inked(string) : i <= m,
                CHOOSE i \in Inked(string) : \A m \in Inked(string) : m <= i)

clean_text(html) == Strip(Collapse(GetText(html, 1, <<>>)))

\* ------------------------------------------------------- parse_chapter
\* A node with class "text" of the document: its tag name, its parent's tag
\* name, whether an h3 / an element of class "passage-content" is among its
\* ancestors, and its content.
Node(name, parent, underH3, inPassage, content) ==
    [name |-> name, parent |-> parent, underH3 |-> underH3,
     inPassage |-> inPassage, html |-> content]

\* A selector that takes every node of class "text": a buggy variant.
MatchesAnyText(node) == TRUE

\* The selector ".passage-content .text, h3 .text"
Matches(node) == node.inPassage \/ node.underH3

\* soup.select(...): the matching nodes in document order
Select(document) == SelectSeq(document, Matches)

\* element.name == "span" and element.parent.name == "h3"
IsHeading(node) == node.name = "span" /\ node.parent = "h3"

\* element.select_one(".versenum"): the position of the first verse-number
\* label in the node, 0 for None.
VerseTag(content) ==
    LET hits == {i \in 1..Len(content) : content[i] = VerseNumOpen}
    IN  IF hits = {} THEN 0 ELSE CHOOSE i \in hits : \A m \in hits : i <= m

\* The strings of the element open as stack[base + 1], read from token i,
\* each stripped, joined: Tag.get_text(strip=True).  `cur` is the string
\* being read; any tag ends it.
RECURSIVE StrippedText(_, _, _, _, _)
StrippedText(content, i, stack, base, cur) ==
    IF i > Len(content) \/ Len(stack) <= base THEN Strip(cur)
    ELSE LET tok == content[i]
         IN  IF tok \in OpenTags
             THEN Strip(cur) \o StrippedText(content, i + 1, Append(stack, tok), base, <<>>)
             ELSE IF tok \in CloseTags
             THEN Strip(cur) \o StrippedText(content, i + 1, PopToTag(stack, tok), base, <<>>)
             ELSE StrippedText(content, i + 1, stack, base, Append(cur, Decode(tok)))

\* verse_tag.get_text(strip=True)
VerseNumber(content) ==
    LET p == VerseTag(content)
    IN  StrippedText(content, p + 1, StackAt(content, p), Len(StackAt(content, p - 1)), <<>>)

\* re.sub("^" + re.escape(verse_number), "", cleaned_text)
RemovePrefix(prefix, string) ==
    IF Len(prefix) <= Len(string) /\ SubSeq(string, 1, Len(prefix)) = prefix
    THEN SubSeq(string, Len(prefix) + 1, Len(string))
    ELSE string

Subtitle(string) == [type |-> "subtitle", text |-> string]

Verse(number, string) == [type |-> "verse", verse_number |-> number, text |-> string]

\* The implicit-number test placed before the verse-tag test: a buggy variant.
BranchImplicitFirst(found, node) ==
    IF IsHeading(node) THEN "subtitle"
    ELSE IF ~found THEN "implicit"
    ELSE IF VerseTag(node.html) # 0 THEN "explicit"
    ELSE "continuation"

\* The branch of the loop body taken for a node.
Branch(found, node) ==
    IF IsHeading(node) THEN "subtitle"
    ELSE IF VerseTag(node.html) # 0 THEN "explicit"
    ELSE IF ~found THEN "implicit"
    ELSE "continuation"

\* A loop body that sets first_verse_found in every branch: a buggy variant.
FoundAfterAlways(found, branch) == TRUE

\* first_verse_found after the branch
FoundAfter(found, branch) ==
    IF branch \in {"explicit", "implicit"} THEN TRUE ELSE found

\* Merging into the last element whatever its type: a buggy variant.
MergeIndexAnyType(els) == Len(els)

\* Merging into the most recent verse wherever it is: a buggy variant.
MergeIndexLatestVerse(els) ==
    LET verses == {k \in 1..Len(els) : els[k].type = "verse"}
    IN  IF verses = {} THEN 0 ELSE CHOOSE k \in verses : \A m \in verses : m <= k

\* `elements and elements[-1]["type"] == "verse"`: the index of the element
\* continuation text is merged into, 0 when it is dropped.
MergeIndex(els) ==
    IF els # <<>> /\ els[Len(els)].type = "verse" THEN Len(els) ELSE 0

\* text += cleaned_text, without the separator: a buggy variant.
MergedNoSpace(old, string) == old \o string

\* text += f" {cleaned_text}"
Merged(old, string) == old \o <<" ">> \o string

\* elements after the loop body has run for a node
ElementsAfter(els, branch, node) ==
    LET cleaned_text == clean_text(node.html)
        verse_number == VerseNumber(node.html)
    IN  CASE branch = "subtitle" -> Append(els, Subtitle(cleaned_text))
          [] branch = "explicit" ->
                Append(els, Verse(verse_number, Strip(RemovePrefix(verse_number, cleaned_text))))
          [] branch = "implicit" -> Append(els, Verse(<<"1">>, Strip(cleaned_text)))
          [] OTHER ->
                IF MergeIndex(els) = 0 THEN els
                ELSE [els EXCEPT ![MergeIndex(els)].text = Merged(@, cleaned_text)]

KeyError == "KeyError"

\* elem[key]
Item(elem, key) == IF key \in DOMAIN elem THEN elem[key] ELSE KeyError

\* A label that reads verse_number of every element: a buggy variant.
LabelOfVerse(elem) == Item(elem, "verse_number")

\* "Subtitle" if elem["type"] == "subtitle" else f"Verse {elem['verse_number']}"
Label(elem) ==
    IF Item(elem, "type") = "subtitle" THEN "Subtitle" ELSE Item(elem, "verse_number")

\* ----------------------------------------------------------- documents
MaxNodes == 3

\* The second span of the specification's scenario: a footnote, the verse
\* number 1, the verse.
ScenarioVerse ==
    <<"<sup>", "a", "</sup>", VerseNumOpen, "1", "</span>",
      "In", " ", "the", " ", "beginning...">>

\* <h3><span class="text">Heading</span></h3>
HeadingNode == Node("span", "h3", TRUE, FALSE, <<"Heading">>)

\* The scenario's span outside any passage-content container and any h3
LooseVerseNode == Node("span", "body", FALSE, FALSE, ScenarioVerse)

\* The same span inside a passage-content container
PassageVerseNode == Node("span", "p", FALSE, TRUE, ScenarioVerse)

\* A span without a verse number
ContinuationNode ==
    Node("span", "p", FALSE, TRUE, <<"and", " ", "God", " ", " ", "<i>", "said", "</i>">>)

\* A span whose verse number is surrounded by whitespace
Verse3Node ==
    Node("span", "p", FALSE, TRUE, <<VerseNumOpen, " ", "3", "\n", "</span>", "\n", "God">>)

\* A span of whitespace only
BlankNode == Node("span", "p", FALSE, TRUE, <<" ">>)

\* A span inside an h3 that is not the h3's child: <h3><b><span class="text">
DeepHeadingNode == Node("span", "b", TRUE, FALSE, <<"<em>", "Selah", "</em>">>)

\* A heading that holds a verse number
NumberedHeadingNode ==
    Node("span", "h3", TRUE, TRUE, <<VerseNumOpen, "1", "</span>", "Psalm">>)

NodeChoices ==
    {HeadingNode, LooseVerseNode, PassageVerseNode, ContinuationNode, Verse3Node,
     BlankNode, DeepHeadingNode, NumberedHeadingNode}

Documents == UNION {[1..n -> NodeChoices] : n \in 0..MaxNodes}

\* ------------------------------------------------ the normalizer's inputs
MaxLen == 4

Alphabet ==
    {"a", " ", "\n", "<sup>", "</sup>", "<i>", "</i>", ChapterNumOpen, "</span>",
     "&lt;sup&gt;", "&lt;i&gt;"}

Fragments == UNION {[1..n -> Alphabet] : n \in 0..MaxLen}

\* ---------------------------------------------------------------- state
VARIABLES
    doc,                \* the nodes of class "text" of the parsed document
    verbose,            \* parse_chapter's flag
    pos,                \* how many selected nodes the loop has processed
    elements,
    first_verse_found,
    pc,                 \* "loop", then "returned" or "raised"
    fragment,           \* clean_text's argument
    cpc,                \* "input", "cleaned", "recleaned"
    cleaned,            \* clean_text(fragment)
    recleaned           \* clean_text(cleaned)

pvars == <<doc, verbose, pos, elements, first_verse_found, pc>>
cvars == <<fragment, cpc, cleaned, recleaned>>
vars == <<doc, verbose, pos, elements, first_verse_found, pc, fragment, cpc, cleaned, recleaned>>

\* parse_chapter(fragment, verbose), before the loop
Init ==
    /\ doc \in Documents
    /\ verbose \in BOOLEAN
    /\ pos = 0
    /\ elements = <<>>
    /\ first_verse_found = FALSE
    /\ pc = "loop"
    /\ fragment = <<>>
    /\ cpc = "idle"
    /\ cleaned = <<>>
    /\ recleaned = <<>>

\* One iteration of the loop over the selected nodes
Iterate ==
    /\ pc = "loop"
    /\ pos < Len(Select(doc))
    /\ LET node == Select(doc)[pos + 1]
           branch == Branch(first_verse_found, node)
       IN  /\ elements' = ElementsAfter(elements, branch, node)
           /\ first_verse_found' = FoundAfter(first_verse_found, branch)
    /\ pos' = pos + 1
    /\ UNCHANGED <<doc, verbose, pc>>
    /\ UNCHANGED cvars

\* The loop is over: the verbose listing, then `return elements`
Return ==
    /\ pc = "loop"
    /\ pos = Len(Select(doc))
    /\ pc' = IF verbose /\ \E k \in 1..Len(elements) : Label(elements[k]) = KeyError
             THEN "raised"
             ELSE "returned"
    /\ UNCHANGED <<doc, verbose, pos, elements, first_verse_found>>
    /\ UNCHANGED cvars

Next == Iterate \/ Return

Spec == Init /\ [][Next]_vars

\* ------------------------------------------------ the normalizer's runs
InitClean ==
    /\ fragment \in Fragments
    /\ cpc = "input"
    /\ cleaned = <<>>
    /\ recleaned = <<>>
    /\ doc = <<>>
    /\ verbose = FALSE
    /\ pos = 0
    /\ elements = <<>>
    /\ first_verse_found = FALSE
    /\ pc = "idle"

\* cleaned = clean_text(fragment)
Clean ==
    /\ cpc = "input"
    /\ cleaned' = clean_text(fragment)
    /\ cpc' = "cleaned"
    /\ UNCHANGED <<fragment, recleaned>>
    /\ UNCHANGED pvars

\* recleaned = clean_text(cleaned): the normalizer applied to its own output
Reclean ==
    /\ cpc = "cleaned"
    /\ recleaned' = clean_text(cleaned)
    /\ cpc' = "recleaned"
    /\ UNCHANGED <<fragment, cleaned>>
    /\ UNCHANGED pvars

NextClean == Clean \/ Reclean

SpecClean == InitClean /\ [][NextClean]_vars

\* ================================================================ claims
sel == Select(doc)

Marked(k) == ~IsHeading(sel[k]) /\ VerseTag(sel[k].html) # 0

Unmarked(k) == ~IsHeading(sel[k]) /\ VerseTag(sel[k].html) = 0

\* The first selected node that is not a heading, 0 if there is none.
FirstContent ==
    LET content == {k \in 1..Len(sel) : ~IsHeading(sel[k])}
    IN  IF content = {} THEN 0 ELSE CHOOSE k \in content : \A m \in content : k <= m

\* Node k is one that adds an element to the output.
Emitting(k) == IsHeading(sel[k]) \/ Marked(k) \/ k = FirstContent

\* The place in the output of the element node k adds.
ElementIndex(k) == Cardinality({m \in 1..k : Emitting(m)})

LastElement == elements[Len(elements)]

\* The loop is about to process an unmarked non-heading node with
\* first_verse_found set.
ContinuationPending ==
    /\ pc = "loop"
    /\ pos < Len(sel)
    /\ Unmarked(pos + 1)
    /\ first_verse_found

InTheBeginning == <<"In", " ", "the", " ", "beginning...">>

\* C1: the elements are in document order: every selected heading node
\* processed so far has added exactly one Subtitle, every marked non-heading
\* node exactly one Verse numbered by its marker's trimmed text (and no
\* implicit "1" beside it), at the place its node has among the nodes that add
\* an element; a heading followed by a node marked "1" returns exactly
\* [Subtitle, Verse "1"].
C1_DocumentOrder ==
    pc \in {"loop", "returned"} =>
        /\ Len(elements) = Cardinality({k \in 1..pos : Emitting(k)})
        /\ \A k \in 1..pos :
              LET e == elements[ElementIndex(k)]
              IN  /\ IsHeading(sel[k]) =>
                        e = Subtitle(clean_text(sel[k].html))
                  /\ Marked(k) =>
                        /\ e.type = "verse"
                        /\ e.verse_number = VerseNumber(sel[k].html)
                        /\ sel[k].html = ScenarioVerse => e.verse_number = <<"1">>
                        /\ sel[k] = Verse3Node => e.verse_number = <<"3">>
        /\ (pc = "returned" /\ sel = <<HeadingNode, PassageVerseNode>>) =>
              elements = <<Subtitle(<<"Heading">>), Verse(<<"1">>, InTheBeginning)>>

C1_Witness ==
    /\ pc = "returned"
    /\ sel = <<HeadingNode, PassageVerseNode>>
    /\ Len(elements) = 2
    /\ elements[2].verse_number = <<"1">>

\* C2: a continuation node processed while the last element is a Verse
\* leaves the length unchanged, appends one space and the cleaned text to
\* that Verse's text, and changes neither its number nor any earlier element.
C2_ContinuationMerge ==
    [][(ContinuationPending /\ elements # <<>> /\ LastElement.type = "verse") =>
          /\ Len(elements') = Len(elements)
          /\ elements'[Len(elements)].text =
                LastElement.text \o <<" ">> \o clean_text(sel[pos + 1].html)
          /\ elements'[Len(elements)].verse_number = LastElement.verse_number
          /\ elements'[Len(elements)].type = "verse"
          /\ \A i \in 1..(Len(elements) - 1) : elements'[i] = elements[i]]_vars

C2_Witness ==
    /\ doc = <<Verse3Node, ContinuationNode>>
    /\ pos = 2
    /\ elements =
          <<Verse(<<"3">>, <<"God", " ", "and", " ", "God", " ", "*", "said", "*">>)>>

\* C3: the implicit number "1" is given at most once, to the first
\* non-heading node when it has no marker; headings leave first_verse_found
\* alone; no later unmarked node adds a Verse, whatever explicit "1" follows.
C3_ImplicitOnce ==
    LET implicit == IF FirstContent \in 1..pos /\ Unmarked(FirstContent) THEN 1 ELSE 0
        verses == {j \in 1..Len(elements) : elements[j].type = "verse"}
    IN  pc \in {"loop", "returned"} =>
            /\ first_verse_found = (FirstContent \in 1..pos)
            /\ Cardinality(verses) = Cardinality({k \in 1..pos : Marked(k)}) + implicit
            /\ Cardinality({j \in verses : elements[j].verse_number = <<"1">>}) =
                  Cardinality({k \in 1..pos : Marked(k) /\ VerseNumber(sel[k].html) = <<"1">>})
                  + implicit
            /\ implicit = 1 =>
                  /\ elements[FirstContent].type = "verse"
                  /\ elements[FirstContent].verse_number = <<"1">>
                  /\ \A j \in 1..(FirstContent - 1) : elements[j].type = "subtitle"

C3_Witness ==
    /\ pc = "returned"
    /\ sel = <<HeadingNode, ContinuationNode, PassageVerseNode>>
    /\ Len(elements) = 3
    /\ elements[2].verse_number = <<"1">>
    /\ elements[3].verse_number = <<"1">>

ScenarioDocument == <<HeadingNode, LooseVerseNode>>

\* C4 as stated: the scenario document returns Subtitle "Heading" then
\* Verse "1" "In the beginning...".
C4_AsStated ==
    (doc = ScenarioDocument /\ pc = "returned") =>
        elements = <<Subtitle(<<"Heading">>), Verse(<<"1">>, InTheBeginning)>>

\* C4 amended: the scenario document returns the Subtitle alone, its second
\* span being selected by neither selector; with that span inside a
\* passage-content container the two elements are returned.
C4_ScenarioSelected ==
    /\ (doc = ScenarioDocument /\ pc = "returned") =>
          elements = <<Subtitle(<<"Heading">>)>>
    /\ (doc = <<HeadingNode, PassageVerseNode>> /\ pc = "returned") =>
          elements = <<Subtitle(<<"Heading">>), Verse(<<"1">>, InTheBeginning)>>

C4_Witness ==
    /\ doc = ScenarioDocument
    /\ pc = "returned"
    /\ pos = 1
    /\ Len(elements) = 1

\* C5: a continuation node processed while the last element is a Subtitle
\* is dropped: elements and first_verse_found stay as they were.
C5_ContinuationDropped ==
    [][(ContinuationPending /\ elements # <<>> /\ LastElement.type = "subtitle") =>
          /\ elements' = elements
          /\ first_verse_found' = first_verse_found]_vars

C5_Witness ==
    /\ doc = <<Verse3Node, HeadingNode, ContinuationNode>>
    /\ pos = 3
    /\ elements = <<Verse(<<"3">>, <<"God">>), Subtitle(<<"Heading">>)>>

\* C8: parse_chapter raises nothing and returns: it is never in the raised
\* outcome; until it has returned, the loop has a selected node left to
\* process (the guard of Iterate) or is over (the guard of Return), and it
\* never runs past the selected nodes; a document with no selected node
\* returns the empty sequence.
C8_NoError ==
    pc # "idle" =>
        /\ pc # "raised"
        /\ pos \in 0..Len(sel)
        /\ pc = "returned" \/ (pc = "loop" /\ (pos < Len(sel) \/ pos = Len(sel)))
        /\ (pc = "returned" /\ sel = <<>>) => elements = <<>>

C8_Witness ==
    /\ pc = "returned"
    /\ verbose
    /\ sel = <<HeadingNode, BlankNode, Verse3Node>>
    /\ elements[2] = Verse(<<"1">>, <<>>)

\* C9: a step changes at most the last element, only when it is a Verse and
\* nothing is appended in that step, and then only its text; elements are
\* never removed.
C9_OnlyLastVerseChanges ==
    [][/\ Len(elements') >= Len(elements)
       /\ \A i \in 1..Len(elements) :
             /\ (\/ i < Len(elements)
                 \/ elements[i].type = "subtitle"
                 \/ Len(elements') > Len(elements)) => elements'[i] = elements[i]
             /\ elements'[i].type = elements[i].type
             /\ elements[i].type = "verse" =>
                   elements'[i].verse_number = elements[i].verse_number]_vars

C9_Witness ==
    /\ doc = <<Verse3Node, ContinuationNode, HeadingNode>>
    /\ pos = 3
    /\ Len(elements) = 2
    /\ Len(elements[1].text) > 1

\* C10 as stated: whenever a continuation node is about to be dropped
\* because the last element is a Subtitle, the output holds no Verse.
C10_AsStated ==
    (ContinuationPending /\ elements # <<>> /\ LastElement.type = "subtitle") =>
        \A j \in 1..Len(elements) : elements[j].type # "verse"

\* ------------------------------------------------------- the normalizer
IsSpace(c) == c \in Whitespace

\* C6 as stated: clean_text(clean_text(x)) = clean_text(x) for every x.
C6_AsStated == cpc = "recleaned" => recleaned = cleaned

\* C6 amended: clean_text(clean_text(x)) = clean_text(x) for every x whose
\* cleaned text holds nothing the HTML parser reads as markup (no text
\* decoded from escaped markup); emphasis asterisks are kept.
C6_IdempotentOnPlainText ==
    (cpc = "recleaned" /\ \A i \in 1..Len(cleaned) : cleaned[i] \notin OpenTags \cup CloseTags \cup EscapedTags)
        => recleaned = cleaned

C6_Witness ==
    /\ cpc = "recleaned"
    /\ fragment = <<"<i>", "a", "</i>", "\n">>
    /\ cleaned = <<"*", "a", "*">>
    /\ recleaned = cleaned

\* C7: cleaned text has no two consecutive whitespace characters and neither
\* starts nor ends with one.
C7_NoWhitespaceRuns ==
    cpc \in {"cleaned", "recleaned"} =>
        /\ \A i \in 1..(Len(cleaned) - 1) : ~(IsSpace(cleaned[i]) /\ IsSpace(cleaned[i + 1]))
        /\ cleaned # <<>> => ~IsSpace(cleaned[1]) /\ ~IsSpace(cleaned[Len(cleaned)])

C7_Witness ==
    /\ cpc = "cleaned"
    /\ fragment = <<"a", " ", "\n", "a">>
    /\ cleaned = <<"a", " ", "a">>

====
